---- MODULE Spec2Model ----
(***************************************************************************)
(* Model of the html5ever bridge of lightpanda-io/browser                  *)
(* (src/html5ever/{lib,sink,types}.rs): the attribute iterator, the        *)
(* tree-sink adapter with its metadata arena, the one-shot entry points    *)
(* and the streaming session.                                              *)
(***************************************************************************)
EXTENDS Integers, Sequences, FiniteSets, TLC

VARIABLES
    iter,       \* the CAttributeIterator under test: [vec, pos]
    iterLog,    \* what each count()/next() call on it returned, in call order
    input,      \* the caller's byte buffer
    sess,       \* streaming sessions, by handle (a session is a run plus its bookkeeping)
    shot,       \* the one-shot call made, if any, and its run
    call,       \* the entry point called last, and whether its null checks turned it away
    misuse,     \* whether the caller goes on using a handle it has finished or destroyed
    issued      \* the adapter methods the engine called, with what each returned

vars == <<iter, iterLog, input, sess, shot, call, misuse, issued>>

(***************************************************************************)
(* Bounds of the model.                                                    *)
(***************************************************************************)
MaxAttrs == 2        \* longest attribute list handed to an iterator
MaxIterCalls == 4    \* count()/next() calls made on one iterator
MaxInputLen == 3     \* every byte sequence up to this length is an input
MaxChunks == 3       \* chunks one session reads
MaxStale == 1        \* calls made on a session handle after it became terminal
MaxEvents == 3       \* adapter methods the engine calls when it is left open
MaxSessions == 2     \* sessions a caller holds side by side

(***************************************************************************)
(* types.rs: the values that cross the boundary.                           *)
(***************************************************************************)
\* the null pointer, as the start of a byte view
NULL == <<"null">>

\* Option<T>: None is the empty sequence, Some(v) the sequence <<v>>
None == <<>>
Some(v) == <<v>>

\* Text is a sequence of characters; a character outside ASCII takes more
\* than one byte in UTF-8 ("e9" is U+00E9, "fffd" is U+FFFD).
CharWidth(c) == IF c = "e9" THEN 2 ELSE IF c = "fffd" THEN 3 ELSE 1

RECURSIVE ByteLen(_)
ByteLen(s) == IF s = <<>> THEN 0 ELSE CharWidth(Head(s)) + ByteLen(Tail(s))

\* Slice<T>::default()
SliceDefault == [ptr |-> NULL, len |-> 0]

\* StringSlice { ptr: s.as_ptr(), len: s.len() }: a borrowed view of s
StringSlice(s) == [ptr |-> s, len |-> ByteLen(s)]

CNullableNone(dflt) == [tag |-> 0, value |-> dflt]

CNullableSome(v) == [tag |-> 1, value |-> v]

\* html5ever::QualName, as far as the bridge reads it
QualName(prefix, ns, local) == [prefix |-> prefix, ns |-> ns, local |-> local]

CQualNameCreate(q) ==
    [prefix |-> IF q.prefix = None
                THEN CNullableNone(SliceDefault)
                ELSE CNullableSome(StringSlice(q.prefix[1])),
     ns     |-> StringSlice(q.ns),
     local  |-> StringSlice(q.local)]

CQualNameDefault ==
    [prefix |-> CNullableNone(SliceDefault), ns |-> SliceDefault, local |-> SliceDefault]

CAttributeDefault == [name |-> CQualNameDefault, value |-> SliceDefault]

\* html5ever::Attribute values the engine may hand over
AttrNames == {QualName(None, <<>>, <<"i", "d">>), QualName(Some(<<"x">>), <<"n", "s">>, <<"c", "l">>)}
AttrValues == {<<>>, <<"e9">>}
Attributes == [name : AttrNames, value : AttrValues]

RECURSIVE SeqsUpTo(_, _)
SeqsUpTo(S, n) ==
    IF n = 0 THEN {<<>>}
    ELSE LET shorter == SeqsUpTo(S, n - 1)
         IN  shorter \cup {Append(s, x) : s \in {t \in shorter : Len(t) = n - 1}, x \in S}

AttrLists == SeqsUpTo(Attributes, MaxAttrs)

\* CAttributeIterator { vec: attrs, pos: 0 }
CAttributeIterator(attrs) == [vec |-> attrs, pos |-> 0]

(***************************************************************************)
(* lib.rs: the attribute iterator's two entry points.                      *)
(***************************************************************************)
NextKeepsPosition ==
    /\ Len(iterLog) < MaxIterCalls
    /\ IF iter.pos = Len(iter.vec)
       THEN /\ iterLog' = Append(iterLog,
                   [op |-> "next", ret |-> CNullableNone(CAttributeDefault)])
            /\ iter' = iter
       ELSE LET attr == iter.vec[iter.pos + 1]
            IN  /\ iterLog' = Append(iterLog,
                       [op |-> "next",
                        ret |-> CNullableSome([name  |-> CQualNameCreate(attr.name),
                                               value |-> StringSlice(attr.value)])])
                /\ iter' = iter
    /\ UNCHANGED <<input, sess, shot, call, misuse, issued>>

\* html5ever_attribute_iterator_next on the iterator it: the iterator
\* afterwards and the value returned
AttributeIteratorNext(it) ==
    LET pos == it.pos
    IN  IF pos = Len(it.vec)
        THEN [iter |-> it, ret |-> CNullableNone(CAttributeDefault)]
        ELSE LET attr == it.vec[pos + 1]   \* vec[pos], 0-based in the source
             IN  [iter |-> [it EXCEPT !.pos = pos + 1],
                  ret  |-> CNullableSome([name  |-> CQualNameCreate(attr.name),
                                          value |-> StringSlice(attr.value)])]

\* html5ever_attribute_iterator_count on the iterator it
AttributeIteratorCount(it) == Len(it.vec)

html5ever_attribute_iterator_next ==
    /\ Len(iterLog) < MaxIterCalls
    /\ iter' = AttributeIteratorNext(iter).iter
    /\ iterLog' = Append(iterLog, [op |-> "next", ret |-> AttributeIteratorNext(iter).ret])
    /\ UNCHANGED <<input, sess, shot, call, misuse, issued>>

CountRemaining ==
    /\ Len(iterLog) < MaxIterCalls
    /\ iterLog' = Append(iterLog, [op |-> "count", ret |-> Len(iter.vec) - iter.pos])
    /\ UNCHANGED <<iter, input, sess, shot, call, misuse, issued>>

html5ever_attribute_iterator_count ==
    /\ Len(iterLog) < MaxIterCalls
    /\ iterLog' = Append(iterLog, [op |-> "count", ret |-> AttributeIteratorCount(iter)])
    /\ UNCHANGED <<iter, input, sess, shot, call, misuse, issued>>

(***************************************************************************)
(* Input bytes and their decoding.  "c3" "a9" is the two-byte UTF-8 form   *)
(* of U+00E9; either byte alone is not valid UTF-8.                        *)
(***************************************************************************)
Bytes == {"<", ">", "/", "a", "c3", "a9"}
IsAscii(b) == b \in {"<", ">", "/", "a"}

\* std::str::from_utf8(bytes).is_ok()
RECURSIVE Utf8Valid(_)
Utf8Valid(bs) ==
    IF bs = <<>> THEN TRUE
    ELSE IF IsAscii(Head(bs)) THEN Utf8Valid(Tail(bs))
    ELSE IF Head(bs) = "c3"
         THEN Len(bs) >= 2 /\ bs[2] = "a9" /\ Utf8Valid(SubSeq(bs, 3, Len(bs)))
         ELSE FALSE

\* the characters of a valid byte sequence (StrTendril::from(s))
RECURSIVE Utf8Chars(_)
Utf8Chars(bs) ==
    IF bs = <<>> THEN <<>>
    ELSE IF Head(bs) = "c3" THEN <<"e9">> \o Utf8Chars(SubSeq(bs, 3, Len(bs)))
    ELSE <<Head(bs)>> \o Utf8Chars(Tail(bs))

\* how many leading bytes of bs are whole, valid characters
RECURSIVE ValidPrefixLen(_)
ValidPrefixLen(bs) ==
    IF bs = <<>> THEN 0
    ELSE IF IsAscii(Head(bs)) THEN 1 + ValidPrefixLen(Tail(bs))
    ELSE IF Head(bs) = "c3" /\ Len(bs) >= 2 /\ bs[2] = "a9"
         THEN 2 + ValidPrefixLen(SubSeq(bs, 3, Len(bs)))
         ELSE 0

(***************************************************************************)
(* sink.rs: element metadata and the arena that owns it.  An arena is a    *)
(* sequence of slots; the address of an entry is its slot number.          *)
(***************************************************************************)
ElementFlagsDefault == [template |-> FALSE, mathml_annotation_xml_integration_point |-> FALSE]

\* the template flag kept where the integration-point flag belongs
ElementDataNewTemplateFlag(qname, flags) ==
    [qname |-> qname,
     mathml_annotation_xml_integration_point |-> flags.template]

ElementDataNew(qname, flags) ==
    [qname |-> qname,
     mathml_annotation_xml_integration_point |-> flags.mathml_annotation_xml_integration_point]

\* typed_arena::Arena::new()
ArenaNew == [alive |-> TRUE, slots |-> <<>>]

\* what a read of memory that holds no entry any more yields
Vacated == ElementDataNew(QualName(None, <<>>, <<>>), ElementFlagsDefault)

\* a growable vector in place of the arena: growth moves every entry
ArenaAllocMoving(arena, v) ==
    [arena EXCEPT !.slots = [i \in 1..Len(@) |-> Vacated] \o @ \o <<v>>]

\* one scratch entry in place of the arena: every allocation after the
\* first overwrites it
ArenaAllocReusing(arena, v) ==
    IF arena.slots = <<>> THEN [arena EXCEPT !.slots = <<v>>]
    ELSE [arena EXCEPT !.slots[Len(arena.slots)] = v]

\* Arena::alloc: the new entry takes the next slot, no entry moves
ArenaAlloc(arena, v) == [arena EXCEPT !.slots = Append(@, v)]

\* the address Arena::alloc returned last
ArenaLastAddr(arena) == Len(arena.slots)

(***************************************************************************)
(* The host side of the callbacks (types.rs): it numbers the nodes it      *)
(* creates and keeps, for each, the metadata address it was given.         *)
(***************************************************************************)
NullRef == 0
DocumentRef == 100
CtxRef == 200

HostNew == <<>>
HostCreateElement(host, data) == Append(host, [data |-> data])
HostGetData(host, target) == host[target].data

\* a node the host creates without metadata (comment, processing
\* instruction, template contents)
HostCreateNode(host) == Append(host, [data |-> NullRef])

\* the host reading an attribute iterator inside the callback that hands it
\* over: count() + 1 calls of next(), enough to see it exhausted; each entry
\* is what one call returned and the position it left
HostDrain(it) ==
    LET calls == AttributeIteratorCount(it) + 1
        after[i \in 0..calls] ==
            IF i = 0 THEN it ELSE AttributeIteratorNext(after[i - 1]).iter
    IN  [i \in 1..calls |->
            [ret |-> AttributeIteratorNext(after[i - 1]).ret, pos |-> after[i].pos]]

(***************************************************************************)
(* sink.rs: the tree-sink adapter.  A run r is [arena, parser, host,       *)
(* trace]; every host callback the adapter makes is appended to r.trace.   *)
(***************************************************************************)
Log(r, e) == [r EXCEPT !.trace = Append(@, e)]

\* the error kept from the host
Sink_parse_error_silent(r, err) == r

Sink_parse_error(r, err) ==
    Log(r, [k |-> "parse_error", ctx |-> r.parser.sink.ctx, str |-> StringSlice(err)])

Sink_get_document(r) == r.parser.sink.document

Sink_set_quirks_mode(r, mode) == [r EXCEPT !.parser.sink.quirks_mode = mode]

\* ptr::eq on the two references: where the handles are kept, not what
\* they are; the engine never passes one reference twice
Sink_same_node_by_location(x, y) == FALSE

Sink_same_node(x, y) == x = y

\* elem_name: the get_data callback, then a read of the entry it points to
Sink_elem_name_call(r, target) == Log(r, [k |-> "get_data", node |-> target])
Sink_elem_name(r, target) == r.arena.slots[HostGetData(r.host, target)].qname

Sink_pop(r, node) == Log(r, [k |-> "pop", ctx |-> r.parser.sink.ctx, node |-> node])

Sink_create_element_moving(r, name, attrs, flags) ==
    LET arena == ArenaAllocMoving(r.arena, ElementDataNew(name, flags))
        data  == ArenaLastAddr(arena)
        e     == [k |-> "create_element", ctx |-> r.parser.sink.ctx, data |-> data,
                  name |-> CQualNameCreate(name),
                  attributes |-> CAttributeIterator(attrs),
                  ret |-> Len(r.host) + 1]
    IN  Log([r EXCEPT !.arena = arena, !.host = HostCreateElement(@, data)], e)

Sink_create_element_reusing(r, name, attrs, flags) ==
    LET arena == ArenaAllocReusing(r.arena, ElementDataNew(name, flags))
        data  == ArenaLastAddr(arena)
        e     == [k |-> "create_element", ctx |-> r.parser.sink.ctx, data |-> data,
                  name |-> CQualNameCreate(name),
                  attributes |-> CAttributeIterator(attrs),
                  ret |-> Len(r.host) + 1]
    IN  Log([r EXCEPT !.arena = arena, !.host = HostCreateElement(@, data)], e)

\* create_element: the handle it returns is Len(r.host) of the result
Sink_create_element(r, name, attrs, flags) ==
    LET arena == ArenaAlloc(r.arena, ElementDataNew(name, flags))
        data  == ArenaLastAddr(arena)
        e     == [k |-> "create_element", ctx |-> r.parser.sink.ctx, data |-> data,
                  name |-> CQualNameCreate(name),
                  attributes |-> CAttributeIterator(attrs),
                  ret |-> Len(r.host) + 1]
    IN  Log([r EXCEPT !.arena = arena, !.host = HostCreateElement(@, data)], e)

\* the view handed over after the text it covers was given up: the host
\* reads zeroed memory
Sink_append_text_zeroed(r, parent, t) ==
    Log(r, [k |-> "append", ctx |-> r.parser.sink.ctx, parent |-> parent,
            child |-> [tag |-> 1, node |-> NullRef,
                       text |-> [ptr |-> [i \in 1..Len(t) |-> "00"], len |-> ByteLen(t)]]])

Sink_append_text(r, parent, t) ==
    Log(r, [k |-> "append", ctx |-> r.parser.sink.ctx, parent |-> parent,
            child |-> [tag |-> 1, node |-> NullRef, text |-> StringSlice(t)]])

Sink_append_node(r, parent, node) ==
    Log(r, [k |-> "append", ctx |-> r.parser.sink.ctx, parent |-> parent,
            child |-> [tag |-> 0, node |-> node, text |-> SliceDefault]])

\* NodeOrText<Ref>, the child the engine hands to append
AppendText(t) == [kind |-> "AppendText", t |-> t]
AppendNode(node) == [kind |-> "AppendNode", node |-> node]

Sink_append(r, parent, child) ==
    IF child.kind = "AppendText" THEN Sink_append_text(r, parent, child.t)
    ELSE Sink_append_node(r, parent, child.node)

\* get_template_contents: the handle it returns is Len(r.host) of the result
Sink_get_template_contents(r, target) ==
    Log([r EXCEPT !.host = HostCreateNode(@)],
        [k |-> "get_template_contents", ctx |-> r.parser.sink.ctx, target |-> target,
         ret |-> Len(r.host) + 1])

\* is_mathml_annotation_xml_integration_point: the get_data callback, then
\* a read of the entry it points to
Sink_is_mathml_annotation_xml_integration_point_call(r, target) ==
    Log(r, [k |-> "get_data", node |-> target])
Sink_is_mathml_annotation_xml_integration_point(r, target) ==
    r.arena.slots[HostGetData(r.host, target)].mathml_annotation_xml_integration_point

\* create_comment: the handle it returns is Len(r.host) of the result
Sink_create_comment(r, txt) ==
    Log([r EXCEPT !.host = HostCreateNode(@)],
        [k |-> "create_comment", ctx |-> r.parser.sink.ctx, str |-> StringSlice(txt),
         ret |-> Len(r.host) + 1])

\* create_pi: the handle it returns is Len(r.host) of the result
Sink_create_pi(r, target, data) ==
    Log([r EXCEPT !.host = HostCreateNode(@)],
        [k |-> "create_pi", ctx |-> r.parser.sink.ctx,
         target |-> StringSlice(target), data |-> StringSlice(data),
         ret |-> Len(r.host) + 1])

\* panic!: the process does not go on
Panic(r) == [r EXCEPT !.abort = TRUE]

\* the call passed on to the host as an append to the sibling
Sink_append_before_sibling_forwarding(r, sibling, child) == Sink_append(r, sibling, child)

Sink_append_before_sibling(r, sibling, child) == Panic(r)

Sink_append_based_on_parent_node(r, element, prev_element, child) == Panic(r)

Sink_append_doctype_to_document(r, name, public_id, system_id) ==
    Log(r, [k |-> "append_doctype_to_document", ctx |-> r.parser.sink.ctx,
            name |-> StringSlice(name), public_id |-> StringSlice(public_id),
            system_id |-> StringSlice(system_id)])

\* the iterator handed over one step on: past the first attribute
Sink_add_attrs_if_missing_skipping(r, target, attrs) ==
    Log(r, [k |-> "add_attrs_if_missing", ctx |-> r.parser.sink.ctx, target |-> target,
            attributes |-> [vec |-> attrs, pos |-> IF attrs = <<>> THEN 0 ELSE 1]])

Sink_add_attrs_if_missing(r, target, attrs) ==
    Log(r, [k |-> "add_attrs_if_missing", ctx |-> r.parser.sink.ctx, target |-> target,
            attributes |-> CAttributeIterator(attrs)])

Sink_remove_from_parent(r, target) ==
    Log(r, [k |-> "remove_from_parent", ctx |-> r.parser.sink.ctx, target |-> target])

\* the two handles passed in the other order
Sink_reparent_children_swapped(r, node, new_parent) ==
    Log(r, [k |-> "reparent_children", ctx |-> r.parser.sink.ctx, node |-> new_parent,
            new_parent |-> node])

Sink_reparent_children(r, node, new_parent) ==
    Log(r, [k |-> "reparent_children", ctx |-> r.parser.sink.ctx, node |-> node,
            new_parent |-> new_parent])

Sink_finish(r) == Log(r, [k |-> "sink_finish"])

SinkNew(document, ctx) == [document |-> document, ctx |-> ctx, quirks_mode |-> "NoQuirks"]

(***************************************************************************)
(* The engine (html5ever::Parser<Sink>), reduced to what decides when the  *)
(* adapter is called: a tokenizer that keeps an unfinished tag across      *)
(* chunks but hands over character data as soon as the chunk holding it    *)
(* is consumed, and a tree builder that creates the root element before    *)
(* the first token, opens an element per start tag, closes the nearest     *)
(* open element of that name per end tag, and at end of input pops what    *)
(* is still open.                                                          *)
(***************************************************************************)
HtmlNs == <<"h">>
HtmlName == QualName(None, HtmlNs, <<"h", "t", "m", "l">>)
BodyName == QualName(None, HtmlNs, <<"b", "o", "d", "y">>)
ErrNoDoctype == <<"E", "d">>
ErrEndTag == <<"E", "t">>
ErrEmptyTag == <<"E", "n">>
ErrEofInTag == <<"E", "f">>

\* parse_document(sink, opts)
ParserNew(sink) == [alive |-> TRUE, sink |-> sink, tok |-> "data", buf |-> <<>>,
                    open |-> <<>>, root |-> FALSE]

CurrentNode(r) ==
    IF r.parser.open = <<>> THEN Sink_get_document(r)
    ELSE r.parser.open[Len(r.parser.open)]

Push(r, h) == [r EXCEPT !.parser.open = Append(@, h)]

\* the root element, created once, before the first token is handled
CreateRoot(r) ==
    LET r1 == Sink_create_element(r, HtmlName, <<>>, ElementFlagsDefault)
        r2 == Sink_append_node(r1, Sink_get_document(r1), Len(r1.host))
    IN  [Push(r2, Len(r1.host)) EXCEPT !.parser.root = TRUE]

Scaffold(r) ==
    IF r.parser.root THEN r
    ELSE CreateRoot(Sink_set_quirks_mode(Sink_parse_error(r, ErrNoDoctype), "Quirks"))

EmitText(r, run) ==
    IF run = <<>> THEN r
    ELSE LET r1 == Scaffold(r) IN Sink_append_text(r1, CurrentNode(r1), run)

StartTag(r, name) ==
    LET r1 == Scaffold(r)
        r2 == Sink_create_element(r1, QualName(None, HtmlNs, name), <<>>, ElementFlagsDefault)
        r3 == Sink_append_node(r2, CurrentNode(r1), Len(r2.host))
    IN  Push(r3, Len(r2.host))

\* pop the open elements from the top down to position i
RECURSIVE PopDownTo(_, _)
PopDownTo(r, i) ==
    IF Len(r.parser.open) < i THEN r
    ELSE PopDownTo([Sink_pop(r, CurrentNode(r))
                        EXCEPT !.parser.open = SubSeq(@, 1, Len(@) - 1)], i)

\* look from open element i downwards for one named name (the root, at
\* position 1, is never closed by an end tag)
RECURSIVE CloseNearest(_, _, _)
CloseNearest(r, name, i) ==
    IF i <= 1 THEN Sink_parse_error(r, ErrEndTag)
    ELSE LET r1 == Sink_elem_name_call(r, r.parser.open[i])
         IN  IF Sink_elem_name(r1, r.parser.open[i]).local = name
             THEN PopDownTo(r1, i)
             ELSE CloseNearest(r1, name, i - 1)

EndTag(r, name) ==
    LET r1 == Scaffold(r) IN CloseNearest(r1, name, Len(r1.parser.open))

\* the tag whose text between "<" and ">" is r.parser.buf
EmitTag(r) ==
    LET buf == r.parser.buf
        r1  == [r EXCEPT !.parser.tok = "data", !.parser.buf = <<>>]
    IN  IF buf = <<>> \/ buf = <<"/">> THEN Sink_parse_error(Scaffold(r1), ErrEmptyTag)
        ELSE IF Head(buf) = "/" THEN EndTag(r1, Tail(buf))
        ELSE StartTag(r1, buf)

\* the tokenizer over the characters of one chunk; run is the character
\* data read so far in this chunk and not yet handed to the tree builder
RECURSIVE Tokenize(_, _, _)
Tokenize(r, chars, run) ==
    IF chars = <<>> THEN EmitText(r, run)
    ELSE IF r.parser.tok = "data"
         THEN IF Head(chars) = "<"
              THEN Tokenize([EmitText(r, run) EXCEPT !.parser.tok = "tag"], Tail(chars), <<>>)
              ELSE Tokenize(r, Tail(chars), Append(run, Head(chars)))
         ELSE IF Head(chars) = ">"
              THEN Tokenize(EmitTag(r), Tail(chars), <<>>)
              ELSE Tokenize([r EXCEPT !.parser.buf = Append(@, Head(chars))], Tail(chars), <<>>)

\* a tokenizer that keeps nothing of an unfinished tag from chunk to chunk
ProcessForgetful(r, chars) ==
    Tokenize([r EXCEPT !.parser.tok = "data", !.parser.buf = <<>>], chars, <<>>)

\* Parser::process(tendril)
Process(r, chars) == Tokenize(r, chars, <<>>)

\* Parser::finish(): the tokenizer's and the tree builder's end of input,
\* then the sink's finish(), which consumes the parser
ParserFinish(r) ==
    LET r1 == IF r.parser.tok = "tag"
              THEN Sink_parse_error([r EXCEPT !.parser.tok = "data", !.parser.buf = <<>>],
                                    ErrEofInTag)
              ELSE r
        r2 == PopDownTo(Scaffold(r1), 1)
    IN  [Log(Sink_finish(r2), [k |-> "drop_parser"]) EXCEPT !.parser.alive = FALSE]

\* the arena goes out of scope
DropArena(r) == [Log(r, [k |-> "drop_arena"]) EXCEPT !.arena.alive = FALSE]

\* the parser is dropped without finish()
DropParser(r) == [Log(r, [k |-> "drop_parser"]) EXCEPT !.parser.alive = FALSE]

RunNew(document, ctx) ==
    [arena |-> ArenaNew, parser |-> ParserNew(SinkNew(document, ctx)),
     host |-> HostNew, trace |-> <<>>]

Internal == {"sink_finish", "drop_parser", "drop_arena"}

\* the host callbacks of a trace, in order
HostCalls(trace) == SelectSeq(trace, LAMBDA e : e.k \notin Internal)

\* the adapter events of a trace: host callbacks and the sink's finish()
AdapterEvents(trace) == SelectSeq(trace, LAMBDA e : e.k \notin {"drop_parser", "drop_arena"})

NoSessions == <<>>
NoShot == [entry |-> "none"]
NoCall == [op |-> "none", rejected |-> FALSE]

(***************************************************************************)
(* lib.rs: the one-shot entry points.                                      *)
(***************************************************************************)
ErrInvalidUtf8 == <<"E", "u">>

\* .from_utf8(): the lossy decoder hands the parser each valid stretch,
\* and for each invalid or incomplete sequence an error and one U+FFFD
RECURSIVE LossyProcess(_, _)
LossyProcess(r, bs) ==
    LET n == ValidPrefixLen(bs)
    IN  IF n = Len(bs) THEN Process(r, Utf8Chars(bs))
        ELSE LET r1 == Process(r, Utf8Chars(SubSeq(bs, 1, n)))
                 r2 == Process(Sink_parse_error(r1, ErrInvalidUtf8), <<"fffd">>)
             IN  LossyProcess(r2, SubSeq(bs, n + 2, Len(bs)))

\* no arena, sink or parser was built
NoRun == [arena |-> [alive |-> FALSE, slots |-> <<>>],
          parser |-> [alive |-> FALSE], host |-> HostNew, trace |-> <<>>]

\* a one-shot parse that feeds the parser and never finishes it
ParseDocumentRunUnfinished(document, ctx, bytes) ==
    DropArena(DropParser(LossyProcess(RunNew(document, ctx), bytes)))

\* parse_document(sink, opts).from_utf8().one(bytes), then the arena's scope ends
ParseDocumentRun(document, ctx, bytes) ==
    DropArena(ParserFinish(LossyProcess(RunNew(document, ctx), bytes)))

\* parse_fragment(sink, opts, body, [], false): the context element and the
\* root element are created before any input is read
FragmentNew(document, ctx) ==
    LET r1 == Sink_create_element(RunNew(document, ctx), BodyName, <<>>, ElementFlagsDefault)
    IN  CreateRoot(r1)

ParseFragmentRun(document, ctx, bytes) ==
    DropArena(ParserFinish(LossyProcess(FragmentNew(document, ctx), bytes)))

\* the bytes behind (html, len): html is NULL or points at the input
BytesAt(html, from, len) == SubSeq(input, from + 1, from + len)

OneShotSkipsNoInput(entry, html, len) ==
    /\ shot = NoShot
    /\ sess = NoSessions
    /\ LET bytes == IF html = NULL THEN <<>> ELSE BytesAt(html, 0, len)
           run == IF entry = "document"
                  THEN ParseDocumentRun(DocumentRef, CtxRef, bytes)
                  ELSE ParseFragmentRun(DocumentRef, CtxRef, bytes)
       IN  shot' = [entry |-> entry, html |-> html, len |-> len, bytes |-> bytes,
                    built |-> TRUE, returned |-> TRUE, run |-> run]
    /\ call' = [op |-> entry, rejected |-> (html = NULL \/ len = 0)]
    /\ UNCHANGED <<iter, iterLog, input, sess, misuse, issued>>

OneShot(entry, html, len) ==
    /\ shot = NoShot
    /\ sess = NoSessions
    /\ IF html = NULL \/ len = 0
       THEN shot' = [entry |-> entry, html |-> html, len |-> len, bytes |-> <<>>,
                     built |-> FALSE, returned |-> TRUE, run |-> NoRun]
       ELSE LET bytes == BytesAt(html, 0, len)
                run == IF entry = "document"
                       THEN ParseDocumentRun(DocumentRef, CtxRef, bytes)
                       ELSE ParseFragmentRun(DocumentRef, CtxRef, bytes)
            IN  shot' = [entry |-> entry, html |-> html, len |-> len, bytes |-> bytes,
                         built |-> TRUE, returned |-> TRUE, run |-> run]
    /\ call' = [op |-> entry, rejected |-> (html = NULL \/ len = 0)]
    /\ UNCHANGED <<iter, iterLog, input, sess, misuse, issued>>

Pointers == {NULL, <<"input">>}

html5ever_parse_document ==
    \E html \in Pointers, len \in {0, Len(input)} : OneShot("document", html, len)

html5ever_parse_fragment ==
    \E html \in Pointers, len \in {0, Len(input)} : OneShot("fragment", html, len)

(***************************************************************************)
(* lib.rs: the streaming session.  life is the session's state in the      *)
(* spec's state machine; cuts are the lengths of the chunks read so far    *)
(* and cursor their sum; endLen is the length of the trace when the        *)
(* session became terminal; stale counts the calls made on the handle      *)
(* after that, touched says one of them accessed released memory and       *)
(* abort that it ended the process.                                        *)
(***************************************************************************)
Terminal == {"Finished", "Destroyed"}

SessionNew(document, ctx) ==
    [arena |-> ArenaNew, parser |-> ParserNew(SinkNew(document, ctx)),
     host |-> HostNew, trace |-> <<>>,
     life |-> "Created", cuts |-> <<>>, cursor |-> 0, endLen |-> 0,
     stale |-> 0, touched |-> FALSE, abort |-> FALSE]

Running == \A h \in DOMAIN sess : ~sess[h].abort

\* create, by a caller that holds fewer than most sessions: the new
\* session gets a document and a context of its own
Create(most) ==
    /\ Len(sess) < most
    /\ shot = NoShot
    /\ sess' = Append(sess, SessionNew(DocumentRef + Len(sess), CtxRef + Len(sess)))
    /\ call' = [op |-> "create", rejected |-> FALSE]
    /\ UNCHANGED <<iter, iterLog, input, shot, misuse, issued>>

html5ever_streaming_parser_create == Create(1)

\* a feed that decodes lossily, as the one-shot entry points do
FeedRunLossy(r, bytes) == LossyProcess(r, bytes)

\* a feed that starts the tokenizer afresh for every chunk
FeedRunFresh(r, bytes) ==
    IF Utf8Valid(bytes) THEN ProcessForgetful(r, Utf8Chars(bytes)) ELSE r

\* a feed that only queues a chunk of plain text and returns: the text is
\* handed over by whatever runs the queue later
FeedRunQueued(r, bytes) ==
    IF Utf8Valid(bytes)
    THEN IF r.parser.tok = "data" /\ \A i \in 1..Len(bytes) : bytes[i] # "<"
         THEN r
         ELSE Process(r, Utf8Chars(bytes))
    ELSE r

\* what feed does to the session once its arguments passed the null checks
FeedRun(r, bytes) ==
    IF Utf8Valid(bytes) THEN Process(r, Utf8Chars(bytes)) ELSE r

\* finish that lets go of the arena before the parser is finished
FinishRunArenaFirst(r) == ParserFinish(DropArena(r))

\* finish: parser.finish(), then the arena is dropped at the end of scope
FinishRun(r) == DropArena(ParserFinish(r))

\* a destroy that finishes the parser
DestroyRunFinishing(r) == DropArena(ParserFinish(r))

\* destroy: the box is dropped, its fields in declaration order
DestroyRun(r) == DropParser(DropArena(r))

Outcomes == {"abort", "silent", "replay"}

\* a call on a handle whose box was already released: the build may end
\* the process, go on unharmed, or run on what the released memory holds
StaleRun(s, op, bytes, outcome) ==
    LET t == [s EXCEPT !.stale = @ + 1, !.touched = TRUE]
    IN  CASE outcome = "abort" -> [t EXCEPT !.abort = TRUE]
          [] outcome = "silent" -> t
          [] outcome = "replay" ->
                CASE op = "feed" -> FeedRun(t, bytes)
                  [] op = "finish" -> FinishRun(t)
                  [] op = "destroy" -> DestroyRun(t)

\* a feed that reads an empty chunk as the end of the input and finishes
\* the session
FeedEmptyEndsInput(ptr, html, len) ==
    /\ call' = [op |-> "feed", rejected |-> (ptr = NullRef \/ html = NULL \/ len = 0)]
    /\ IF ptr = NullRef \/ html = NULL
       THEN sess' = sess
       ELSE LET s == sess[ptr]
                bytes == BytesAt(html, s.cursor, len)
                read == [s EXCEPT !.cuts = Append(@, len), !.cursor = @ + len]
                f == FinishRun(s)
            IN  /\ s.life \notin Terminal
                /\ IF len = 0
                   THEN sess' = [sess EXCEPT ![ptr] =
                                   [f EXCEPT !.life = "Finished", !.endLen = Len(f.trace)]]
                   ELSE /\ Len(s.cuts) < MaxChunks
                        /\ sess' = [sess EXCEPT ![ptr] =
                                       [FeedRun(read, bytes) EXCEPT !.life = "Feeding"]]
    /\ UNCHANGED <<iter, iterLog, input, shot, misuse, issued>>

Feed(ptr, html, len) ==
    /\ call' = [op |-> "feed", rejected |-> (ptr = NullRef \/ html = NULL \/ len = 0)]
    /\ IF ptr = NullRef \/ html = NULL \/ len = 0
       THEN sess' = sess
       ELSE LET s == sess[ptr]
                bytes == BytesAt(html, s.cursor, len)
                read == [s EXCEPT !.cuts = Append(@, len), !.cursor = @ + len]
            IN  IF s.life \in Terminal
                THEN /\ misuse
                     /\ s.stale < MaxStale
                     /\ IF Utf8Valid(bytes)
                        THEN \E o \in Outcomes :
                                sess' = [sess EXCEPT ![ptr] = StaleRun(s, "feed", bytes, o)]
                        ELSE sess' = [sess EXCEPT ![ptr] = [s EXCEPT !.stale = @ + 1]]
                ELSE /\ Len(s.cuts) < MaxChunks
                     /\ sess' = [sess EXCEPT ![ptr] =
                                    [FeedRun(read, bytes) EXCEPT !.life = "Feeding"]]
    /\ UNCHANGED <<iter, iterLog, input, shot, misuse, issued>>

html5ever_streaming_parser_feed ==
    /\ Running
    /\ \E ptr \in {NullRef} \cup DOMAIN sess, html \in Pointers :
          \E len \in 0..(Len(input) - (IF ptr = NullRef THEN 0 ELSE sess[ptr].cursor)) :
              Feed(ptr, html, len)

\* a finish over one arena that all sessions share: it goes with the
\* session that is finished
FinishSharedArena(ptr) ==
    /\ call' = [op |-> "finish", rejected |-> (ptr = NullRef)]
    /\ IF ptr = NullRef
       THEN sess' = sess
       ELSE LET f == FinishRun(sess[ptr])
            IN  /\ sess[ptr].life \notin Terminal
                /\ sess' = [h \in DOMAIN sess |->
                              IF h = ptr
                              THEN [f EXCEPT !.life = "Finished", !.endLen = Len(f.trace)]
                              ELSE [sess[h] EXCEPT !.arena.alive = FALSE]]
    /\ UNCHANGED <<iter, iterLog, input, shot, misuse, issued>>

Finish(ptr) ==
    /\ call' = [op |-> "finish", rejected |-> (ptr = NullRef)]
    /\ IF ptr = NullRef
       THEN sess' = sess
       ELSE LET s == sess[ptr]
            IN  IF s.life \in Terminal
                THEN /\ misuse
                     /\ s.stale < MaxStale
                     /\ \E o \in Outcomes :
                           sess' = [sess EXCEPT ![ptr] = StaleRun(s, "finish", <<>>, o)]
                ELSE LET f == FinishRun(s)
                     IN  sess' = [sess EXCEPT ![ptr] =
                                    [f EXCEPT !.life = "Finished", !.endLen = Len(f.trace)]]
    /\ UNCHANGED <<iter, iterLog, input, shot, misuse, issued>>

html5ever_streaming_parser_finish ==
    /\ Running
    /\ \E ptr \in {NullRef} \cup DOMAIN sess : Finish(ptr)

Destroy(ptr) ==
    /\ call' = [op |-> "destroy", rejected |-> (ptr = NullRef)]
    /\ IF ptr = NullRef
       THEN sess' = sess
       ELSE LET s == sess[ptr]
            IN  IF s.life \in Terminal
                THEN /\ misuse
                     /\ s.stale < MaxStale
                     /\ \E o \in Outcomes :
                           sess' = [sess EXCEPT ![ptr] = StaleRun(s, "destroy", <<>>, o)]
                ELSE LET d == DestroyRun(s)
                     IN  sess' = [sess EXCEPT ![ptr] =
                                    [d EXCEPT !.life = "Destroyed", !.endLen = Len(d.trace)]]
    /\ UNCHANGED <<iter, iterLog, input, shot, misuse, issued>>

html5ever_streaming_parser_destroy ==
    /\ Running
    /\ \E ptr \in {NullRef} \cup DOMAIN sess : Destroy(ptr)

(***************************************************************************)
(* The caller: one buffer, parsed in one shot or streamed through one      *)
(* session in chunks of any lengths.                                       *)
(***************************************************************************)
Documents ==
    { <<"<", "a", ">", "a", "<", "/", "a", ">">>,
      <<"<", "a", ">", "a", "a", "<", "/", "a", ">">>,
      <<"<", "a", ">", "<", "a", "a", ">", "<", "/", "a", ">">>,
      <<"<", "a", ">", "c3", "a9", "<", "/", "a", ">">>,
      <<"<", "a", ">", "c3", "<", "/", "a", ">">> }

Inputs == SeqsUpTo(Bytes, MaxInputLen) \cup Documents

Init ==
    /\ iter = CAttributeIterator(<<>>)
    /\ iterLog = <<>>
    /\ input \in Inputs
    /\ sess = NoSessions
    /\ shot = NoShot
    /\ call = NoCall
    /\ misuse = FALSE
    /\ issued = <<>>

\* a caller that keeps its handle after finish or destroy and uses it again
MisuseInit ==
    /\ iter = CAttributeIterator(<<>>)
    /\ iterLog = <<>>
    /\ input \in Documents
    /\ sess = NoSessions
    /\ shot = NoShot
    /\ call = NoCall
    /\ misuse = TRUE
    /\ issued = <<>>

Next ==
    \/ html5ever_parse_document
    \/ html5ever_parse_fragment
    \/ html5ever_streaming_parser_create
    \/ html5ever_streaming_parser_feed
    \/ html5ever_streaming_parser_finish
    \/ html5ever_streaming_parser_destroy

Spec == Init /\ [][Next]_vars

SpecMisuse == MisuseInit /\ [][Next]_vars

IterInit ==
    /\ iter \in {CAttributeIterator(attrs) : attrs \in AttrLists}
    /\ iterLog = <<>>
    /\ sess = NoSessions
    /\ shot = NoShot
    /\ call = NoCall
    /\ input = <<>>
    /\ misuse = FALSE
    /\ issued = <<>>

IterNext ==
    \/ html5ever_attribute_iterator_next
    \/ html5ever_attribute_iterator_count

SpecIter == IterInit /\ [][IterNext]_vars

(***************************************************************************)
(* A caller that holds several sessions side by side and interleaves the   *)
(* calls on them in any order; all of them read the same short buffer,     *)
(* each from its own position.                                             *)
(***************************************************************************)
SideBySideInputs == { <<"<", "a", ">">>, <<"a", "<", ">">> }

SideBySideInit ==
    /\ iter = CAttributeIterator(<<>>)
    /\ iterLog = <<>>
    /\ input \in SideBySideInputs
    /\ sess = NoSessions
    /\ shot = NoShot
    /\ call = NoCall
    /\ misuse = FALSE
    /\ issued = <<>>

CreateSideBySide == Create(MaxSessions)

SideBySideNext ==
    \/ CreateSideBySide
    \/ html5ever_streaming_parser_feed
    \/ html5ever_streaming_parser_finish
    \/ html5ever_streaming_parser_destroy

SpecSideBySide == SideBySideInit /\ [][SideBySideNext]_vars

(***************************************************************************)
(* The adapter under any engine.  html5ever decides from the markup which  *)
(* TreeSink methods it calls; here the engine of one session is left open  *)
(* and may call any method of the adapter, with any arguments it can hold: *)
(* the document, the handles the host returned, and its own names, texts   *)
(* and attribute lists.  issued records each call and what it returned;    *)
(* for a call that hands the host an attribute sequence it also records    *)
(* what the host read from it during the callback.                         *)
(***************************************************************************)
IdAttr == [name |-> QualName(None, <<>>, <<"i", "d">>), value |-> <<>>]
ClAttr == [name |-> QualName(Some(<<"x">>), <<"n", "s">>, <<"c", "l">>), value |-> <<"e9">>]
EngineAttrLists == {<<>>, <<ClAttr>>, <<IdAttr, ClAttr>>}

AName == QualName(None, HtmlNs, <<"a">>)
AnnotationXmlName == QualName(Some(<<"m">>), <<"m", "l">>, <<"x">>)
IntegrationPoint == [template |-> FALSE, mathml_annotation_xml_integration_point |-> TRUE]

\* the elements the engine creates: name, attributes, flags
EngineElements ==
    {[name |-> AName, attrs |-> <<>>, flags |-> ElementFlagsDefault],
     [name |-> AName, attrs |-> <<IdAttr, ClAttr>>, flags |-> ElementFlagsDefault],
     [name |-> AnnotationXmlName, attrs |-> <<ClAttr>>, flags |-> IntegrationPoint]}

EngineTexts == {<<"a">>, <<"e9", "a">>}
EngineErrors == {ErrEndTag}
QuirksModes == {"Quirks", "LimitedQuirks", "NoQuirks"}

Nodes(s) == DOMAIN s.host
Elements(s) == {h \in Nodes(s) : s.host[h].data # NullRef}
Refs(s) == {DocumentRef} \cup Nodes(s)
Children(s) == {AppendNode(h) : h \in Nodes(s)} \cup {AppendText(t) : t \in EngineTexts}

SinkInit ==
    /\ iter = CAttributeIterator(<<>>)
    /\ iterLog = <<>>
    /\ input = <<>>
    /\ sess = <<SessionNew(DocumentRef, CtxRef)>>
    /\ shot = NoShot
    /\ call = NoCall
    /\ misuse = FALSE
    /\ issued = <<>>

EngineReady ==
    /\ sess # NoSessions
    /\ Running
    /\ sess[1].life \notin Terminal
    /\ Len(issued) < MaxEvents

\* the callback made last
LastCallback(r) == r.trace[Len(r.trace)]

\* one call: the session afterwards, and the call as the engine saw it
SinkStep(after, e) ==
    /\ sess' = [sess EXCEPT ![1] = after]
    /\ issued' = Append(issued, e)
    /\ UNCHANGED <<iter, iterLog, input, shot, call, misuse>>

Call_parse_error ==
    /\ EngineReady
    /\ \E err \in EngineErrors :
          SinkStep(Sink_parse_error(sess[1], err), [m |-> "parse_error", msg |-> err])

Call_get_document ==
    /\ EngineReady
    /\ SinkStep(sess[1], [m |-> "get_document", ret |-> Sink_get_document(sess[1])])

Call_set_quirks_mode ==
    /\ EngineReady
    /\ \E mode \in QuirksModes :
          SinkStep(Sink_set_quirks_mode(sess[1], mode), [m |-> "set_quirks_mode", mode |-> mode])

Call_same_node ==
    /\ EngineReady
    /\ \E x \in Refs(sess[1]), y \in Refs(sess[1]) :
          SinkStep(sess[1], [m |-> "same_node", x |-> x, y |-> y, ret |-> Sink_same_node(x, y)])

Call_elem_name ==
    /\ EngineReady
    /\ \E target \in Elements(sess[1]) :
          SinkStep(Sink_elem_name_call(sess[1], target),
                   [m |-> "elem_name", target |-> target,
                    ret |-> Sink_elem_name(sess[1], target)])

Call_get_template_contents ==
    /\ EngineReady
    /\ \E target \in Elements(sess[1]) :
          LET after == Sink_get_template_contents(sess[1], target)
          IN  SinkStep(after, [m |-> "get_template_contents", target |-> target,
                               ret |-> Len(after.host)])

Call_is_mathml_annotation_xml_integration_point ==
    /\ EngineReady
    /\ \E target \in Elements(sess[1]) :
          SinkStep(Sink_is_mathml_annotation_xml_integration_point_call(sess[1], target),
                   [m |-> "is_mathml_annotation_xml_integration_point", target |-> target,
                    ret |-> Sink_is_mathml_annotation_xml_integration_point(sess[1], target)])

Call_pop ==
    /\ EngineReady
    /\ \E node \in Elements(sess[1]) :
          SinkStep(Sink_pop(sess[1], node), [m |-> "pop", node |-> node])

Call_create_element ==
    /\ EngineReady
    /\ \E el \in EngineElements :
          LET after == Sink_create_element(sess[1], el.name, el.attrs, el.flags)
          IN  SinkStep(after, [m |-> "create_element", name |-> el.name, attrs |-> el.attrs,
                               flags |-> el.flags, ret |-> Len(after.host),
                               read |-> HostDrain(LastCallback(after).attributes)])

Call_create_comment ==
    /\ EngineReady
    /\ \E txt \in EngineTexts :
          LET after == Sink_create_comment(sess[1], txt)
          IN  SinkStep(after, [m |-> "create_comment", txt |-> txt, ret |-> Len(after.host)])

Call_create_pi ==
    /\ EngineReady
    /\ \E target \in {<<"x">>}, data \in EngineTexts :
          LET after == Sink_create_pi(sess[1], target, data)
          IN  SinkStep(after, [m |-> "create_pi", target |-> target, data |-> data,
                               ret |-> Len(after.host)])

Call_append ==
    /\ EngineReady
    /\ \E parent \in Refs(sess[1]), child \in Children(sess[1]) :
          SinkStep(Sink_append(sess[1], parent, child),
                   [m |-> "append", parent |-> parent, child |-> child])

Call_append_before_sibling ==
    /\ EngineReady
    /\ \E sibling \in Nodes(sess[1]), child \in Children(sess[1]) :
          SinkStep(Sink_append_before_sibling(sess[1], sibling, child),
                   [m |-> "append_before_sibling", sibling |-> sibling, child |-> child])

Call_append_based_on_parent_node ==
    /\ EngineReady
    /\ \E element \in Elements(sess[1]), prev_element \in Elements(sess[1]),
          child \in Children(sess[1]) :
          SinkStep(Sink_append_based_on_parent_node(sess[1], element, prev_element, child),
                   [m |-> "append_based_on_parent_node", element |-> element,
                    prev_element |-> prev_element, child |-> child])

Call_append_doctype_to_document ==
    /\ EngineReady
    /\ \E name \in {<<"h">>}, public_id \in {<<>>, <<"e9">>}, system_id \in {<<>>} :
          SinkStep(Sink_append_doctype_to_document(sess[1], name, public_id, system_id),
                   [m |-> "append_doctype_to_document", name |-> name,
                    public_id |-> public_id, system_id |-> system_id])

Call_add_attrs_if_missing ==
    /\ EngineReady
    /\ \E target \in Elements(sess[1]), attrs \in EngineAttrLists :
          LET after == Sink_add_attrs_if_missing(sess[1], target, attrs)
          IN  SinkStep(after, [m |-> "add_attrs_if_missing", target |-> target,
                               attrs |-> attrs,
                               read |-> HostDrain(LastCallback(after).attributes)])

Call_remove_from_parent ==
    /\ EngineReady
    /\ \E target \in Nodes(sess[1]) :
          SinkStep(Sink_remove_from_parent(sess[1], target),
                   [m |-> "remove_from_parent", target |-> target])

Call_reparent_children ==
    /\ EngineReady
    /\ \E node \in Nodes(sess[1]), new_parent \in Refs(sess[1]) :
          SinkStep(Sink_reparent_children(sess[1], node, new_parent),
                   [m |-> "reparent_children", node |-> node, new_parent |-> new_parent])

SinkNext ==
    \/ Call_parse_error
    \/ Call_get_document
    \/ Call_set_quirks_mode
    \/ Call_same_node
    \/ Call_elem_name
    \/ Call_get_template_contents
    \/ Call_is_mathml_annotation_xml_integration_point
    \/ Call_pop
    \/ Call_create_element
    \/ Call_create_comment
    \/ Call_create_pi
    \/ Call_append
    \/ Call_append_before_sibling
    \/ Call_append_based_on_parent_node
    \/ Call_append_doctype_to_document
    \/ Call_add_attrs_if_missing
    \/ Call_remove_from_parent
    \/ Call_reparent_children

SpecSink == SinkInit /\ [][SinkNext]_vars

(***************************************************************************)
(* Claims about the one-shot entry points and the streaming session.       *)
(***************************************************************************)
\* the chunks a session read, cut from the input
RECURSIVE ChunksFrom(_, _)
ChunksFrom(cuts, from) ==
    IF cuts = <<>> THEN <<>>
    ELSE <<SubSeq(input, from + 1, from + Head(cuts))>> \o ChunksFrom(Tail(cuts), from + Head(cuts))

Chunks(s) == ChunksFrom(s.cuts, 0)
Fed(s) == SubSeq(input, 1, s.cursor)
AllValid(chunks) == \A i \in 1..Len(chunks) : Utf8Valid(chunks[i])

\* create, one feed of the whole text, finish
StreamOnce(bytes) == FinishRun(FeedRun(SessionNew(DocumentRef, CtxRef), bytes))

\* [tok, text]: the tokenizer's state after chars, and whether the last of
\* them was read as character data
RECURSIVE Scan(_, _, _)
Scan(chars, tok, text) ==
    IF chars = <<>> THEN [tok |-> tok, text |-> text]
    ELSE IF tok = "data"
         THEN IF Head(chars) = "<" THEN Scan(Tail(chars), "tag", FALSE)
              ELSE Scan(Tail(chars), "data", TRUE)
         ELSE IF Head(chars) = ">" THEN Scan(Tail(chars), "data", FALSE)
              ELSE Scan(Tail(chars), "tag", FALSE)

\* the cut after byte p of the fed text parts a run of character data
CutsText(s, p) ==
    /\ p > 0
    /\ p < s.cursor
    /\ Scan(Utf8Chars(SubSeq(input, 1, p)), "data", FALSE).text
    /\ input[p + 1] # "<"

RECURSIVE CutPoints(_, _)
CutPoints(cuts, from) ==
    IF cuts = <<>> THEN {}
    ELSE {from + Head(cuts)} \cup CutPoints(Tail(cuts), from + Head(cuts))

NoTextCut(s) == \A p \in CutPoints(s.cuts, 0) : ~CutsText(s, p)

\* C3 as stated: for any split of the text into valid chunks, feeding the
\* chunks in order and finishing yields the same adapter events as feeding
\* the whole text as one chunk and finishing.
C3_AnySplit ==
    \A h \in DOMAIN sess :
        LET s == sess[h]
        IN  (s.life = "Finished" /\ s.stale = 0 /\ AllValid(Chunks(s)))
                => AdapterEvents(s.trace) = AdapterEvents(StreamOnce(Fed(s)).trace)

\* C3, amended: the same, for the splits in which no chunk boundary parts a
\* run of character data.
C3_SplitOutsideText ==
    \A h \in DOMAIN sess :
        LET s == sess[h]
        IN  (s.life = "Finished" /\ s.stale = 0 /\ AllValid(Chunks(s)) /\ NoTextCut(s))
                => AdapterEvents(s.trace) = AdapterEvents(StreamOnce(Fed(s)).trace)

\* a finished session that read a start tag cut in two, then text, then an
\* end tag cut in two
C3_Witness ==
    \E h \in DOMAIN sess :
        LET s == sess[h]
        IN  /\ s.life = "Finished"
            /\ AllValid(Chunks(s))
            /\ NoTextCut(s)
            /\ Len(s.cuts) = 3
            /\ s.cuts[1] = 2
            /\ s.cursor = Len(input)
            /\ Len(input) >= 8
            /\ \E i \in 1..Len(s.trace) : s.trace[i].k = "get_data"

\* C4 as stated: for every buffer the one-shot document parse yields the
\* same adapter events as create, one feed of the buffer, finish.
C4_EveryBuffer ==
    (shot # NoShot /\ shot.entry = "document")
        => AdapterEvents(shot.run.trace) = AdapterEvents(StreamOnce(shot.bytes).trace)

\* C4, amended: the same, for every buffer that is not null, not empty and
\* valid UTF-8.
C4_ValidBuffer ==
    (shot # NoShot /\ shot.entry = "document" /\ shot.html # NULL /\ shot.len > 0
        /\ Utf8Valid(shot.bytes))
        => AdapterEvents(shot.run.trace) = AdapterEvents(StreamOnce(shot.bytes).trace)

\* a one-shot document parse of a valid buffer with an element and text in it
C4_Witness ==
    /\ shot # NoShot
    /\ shot.entry = "document"
    /\ shot.len >= 8
    /\ Utf8Valid(shot.bytes)
    /\ \E i \in 1..Len(shot.run.trace) : shot.run.trace[i].k = "get_data"

\* C5: a one-shot entry point called with a null pointer or with length
\* zero makes no host callback, allocates no metadata and returns.
C5_NoInputNoOp ==
    (shot # NoShot /\ (shot.html = NULL \/ shot.len = 0))
        => /\ shot.returned
           /\ shot.run.trace = <<>>
           /\ shot.run.arena.slots = <<>>
           /\ shot.run.host = HostNew

\* the fragment entry point was called with a null pointer and a length > 0
C5_Witness ==
    /\ shot # NoShot
    /\ shot.entry = "fragment"
    /\ shot.html = NULL
    /\ shot.len > 0

\* C6: destroy() on a session that is Created or Feeding makes it
\* Destroyed, releases arena and engine state, and calls neither the
\* adapter's finish() nor any host callback, then or later.
C6_Cancellation ==
    /\ [][\A h \in DOMAIN sess :
            (h \in DOMAIN sess' /\ sess[h].life \notin Terminal /\ call'.op = "destroy"
                /\ ~call'.rejected)
                => /\ sess'[h].life = "Destroyed"
                   /\ ~sess'[h].arena.alive
                   /\ ~sess'[h].parser.alive
                   /\ AdapterEvents(sess'[h].trace) = AdapterEvents(sess[h].trace)]_vars
    /\ [](\A h \in DOMAIN sess :
            (sess[h].life = "Destroyed" /\ sess[h].stale = 0)
                => /\ Len(sess[h].trace) = sess[h].endLen
                   /\ \A i \in 1..Len(sess[h].trace) : sess[h].trace[i].k # "sink_finish")

\* a session destroyed after two chunks, with elements still open
C6_Witness ==
    \E h \in DOMAIN sess :
        /\ sess[h].life = "Destroyed"
        /\ Len(sess[h].cuts) = 2
        /\ Len(sess[h].parser.open) >= 2

Positions(trace, kinds) == {i \in 1..Len(trace) : trace[i].k \in kinds}

\* C7: finish() on a session that is Created or Feeding makes it Finished;
\* the engine is drained first, then the adapter's finish() is called
\* exactly once, and only then are engine state and arena released; no
\* host callback comes after the release of the arena.
C7_FinishOrder ==
    /\ [][\A h \in DOMAIN sess :
            (h \in DOMAIN sess' /\ sess[h].life \notin Terminal /\ call'.op = "finish"
                /\ ~call'.rejected)
                => sess'[h].life = "Finished"]_vars
    /\ [](\A h \in DOMAIN sess :
            LET t == sess[h].trace
                fin == Positions(t, {"sink_finish"})
                rel == Positions(t, {"drop_parser", "drop_arena"})
                cbs == Positions(t, {"parse_error", "get_data", "pop", "create_element", "append"})
            IN  (sess[h].life = "Finished" /\ sess[h].stale = 0)
                    => /\ Cardinality(fin) = 1
                       /\ Cardinality(rel) = 2
                       /\ Cardinality(Positions(t, {"drop_arena"})) = 1
                       /\ \A c \in cbs, f \in fin : c < f
                       /\ \A f \in fin, r \in rel : f < r
                       /\ ~sess[h].arena.alive
                       /\ ~sess[h].parser.alive)

\* a session finished in the middle of a tag with an element open: the
\* drain reports the error and pops
C7_Witness ==
    \E h \in DOMAIN sess :
        /\ sess[h].life = "Finished"
        /\ Len(sess[h].host) >= 2
        /\ \E i \in 1..Len(sess[h].trace) :
              /\ sess[h].trace[i].k = "parse_error"
              /\ sess[h].trace[i].str.ptr = ErrEofInTag

\* C8: once a handle has been passed to finish() or destroy(), a later
\* feed(), finish() or destroy() on it is turned away: no host callback,
\* no access to the released arena or engine state.
C8_TerminalRejects ==
    \A h \in DOMAIN sess :
        sess[h].life \in Terminal
            => /\ ~sess[h].touched
               /\ ~sess[h].abort
               /\ Len(sess[h].trace) = sess[h].endLen

\* the chunks of s that feed does not drop, processed in order
RECURSIVE FoldValid(_, _)
FoldValid(r, chunks) ==
    IF chunks = <<>> THEN r
    ELSE FoldValid(IF Utf8Valid(Head(chunks)) THEN Process(r, Utf8Chars(Head(chunks))) ELSE r,
                   Tail(chunks))

\* C9: a feed() of a chunk that is not valid UTF-8 issues no callback,
\* reports no error, leaves engine state and arena as they were and the
\* session non-terminal; what follows is as if the chunk had not been fed.
C9_InvalidChunkDropped ==
    /\ [][\A h \in DOMAIN sess :
            (/\ h \in DOMAIN sess'
             /\ sess[h].life \notin Terminal
             /\ Len(sess'[h].cuts) = Len(sess[h].cuts) + 1
             /\ ~Utf8Valid(SubSeq(input, sess[h].cursor + 1, sess'[h].cursor)))
                => /\ sess'[h].trace = sess[h].trace
                   /\ sess'[h].parser = sess[h].parser
                   /\ sess'[h].arena = sess[h].arena
                   /\ sess'[h].host = sess[h].host
                   /\ sess'[h].life \notin Terminal]_vars
    /\ [](\A h \in DOMAIN sess :
            (sess[h].life = "Finished" /\ sess[h].stale = 0)
                => AdapterEvents(sess[h].trace)
                     = AdapterEvents(FinishRun(FoldValid(SessionNew(DocumentRef, CtxRef),
                                                         Chunks(sess[h]))).trace))

\* a finished session that read a start tag, then an invalid chunk, then an
\* end tag that closed the element
C9_Witness ==
    \E h \in DOMAIN sess :
        LET c == Chunks(sess[h])
        IN  /\ sess[h].life = "Finished"
            /\ Len(c) = 3
            /\ Utf8Valid(c[1])
            /\ ~Utf8Valid(c[2])
            /\ Utf8Valid(c[3])
            /\ \E i \in 1..Len(sess[h].trace) : sess[h].trace[i].k = "get_data"

\* C10: the metadata address given to the host at the i-th create_element
\* keeps referring to the entry made then, unmodified, after any number of
\* later create_element calls, as long as the arena lives.
C10_AddressStability ==
    /\ [](\A h \in DOMAIN sess :
            LET s == sess[h]
            IN  s.arena.alive =>
                  \A i \in 1..Len(s.trace) :
                     s.trace[i].k = "create_element"
                        => /\ s.trace[i].data \in 1..Len(s.arena.slots)
                           /\ CQualNameCreate(s.arena.slots[s.trace[i].data].qname)
                                = s.trace[i].name
                           /\ HostGetData(s.host, s.trace[i].ret) = s.trace[i].data)
    /\ [][\A h \in DOMAIN sess :
            (h \in DOMAIN sess' /\ sess[h].arena.alive /\ sess'[h].arena.alive)
                => \A d \in 1..Len(sess[h].arena.slots) :
                      /\ d \in 1..Len(sess'[h].arena.slots)
                      /\ sess'[h].arena.slots[d] = sess[h].arena.slots[d]]_vars

\* a live arena with three entries, made over two chunks
C10_Witness ==
    \E h \in DOMAIN sess :
        /\ sess[h].arena.alive
        /\ Len(sess[h].arena.slots) >= 3
        /\ Len(sess[h].cuts) >= 2

Creates(trace) == SelectSeq(trace, LAMBDA e : e.k = "create_element")

\* C11: every create_element call allocates exactly one new metadata entry,
\* at an address no earlier call of the session was given; the arena holds
\* as many entries as there were create_element calls, and their number
\* never goes down while the arena lives.
C11_OneEntryPerElement ==
    /\ [](\A h \in DOMAIN sess :
            LET s == sess[h]
                made == Creates(s.trace)
            IN  s.arena.alive =>
                  /\ Len(s.arena.slots) = Len(made)
                  /\ \A i \in 1..Len(made), j \in 1..Len(made) :
                        i # j => made[i].data # made[j].data)
    /\ [][\A h \in DOMAIN sess :
            (h \in DOMAIN sess' /\ sess[h].arena.alive /\ sess'[h].arena.alive)
                => /\ Len(sess'[h].arena.slots) >= Len(sess[h].arena.slots)
                   /\ Len(sess'[h].arena.slots) - Len(sess[h].arena.slots)
                        = Len(Creates(sess'[h].trace)) - Len(Creates(sess[h].trace))]_vars

\* a live arena that got two entries from one chunk
C11_Witness ==
    \E h \in DOMAIN sess :
        /\ sess[h].arena.alive
        /\ Len(sess[h].cuts) = 1
        /\ Len(Creates(sess[h].trace)) >= 2
        /\ Len(sess[h].arena.slots) >= 2

ParseErrors(trace) == SelectSeq(trace, LAMBDA e : e.k = "parse_error")

\* C14: a parse error is passed to the host, with the session's context and
\* the message, and never ends the parse: the process is not aborted, a
\* feed() that reported errors leaves the session Feeding, a session that
\* has reported errors still reads the next chunk, and finish() still makes
\* it Finished.
C14_ParseErrorsAreNotFatal ==
    /\ [](Running /\ \A h \in DOMAIN sess :
            /\ sess[h].parser.root
                  => \E i \in 1..Len(sess[h].trace) :
                        sess[h].trace[i] = [k |-> "parse_error", ctx |-> CtxRef,
                                            str |-> StringSlice(ErrNoDoctype)]
            /\ (AllValid(Chunks(sess[h])) /\ sess[h].cursor >= 2
                    /\ SubSeq(Fed(sess[h]), 1, 2) = <<"<", ">">>)
                  => \E i \in 1..Len(sess[h].trace) :
                        sess[h].trace[i] = [k |-> "parse_error", ctx |-> CtxRef,
                                            str |-> StringSlice(ErrEmptyTag)])
    /\ [][\A h \in DOMAIN sess :
            (h \in DOMAIN sess' /\ sess[h].life \notin Terminal /\ ~call'.rejected)
                => /\ (call'.op = "feed"
                          /\ Len(ParseErrors(sess'[h].trace)) > Len(ParseErrors(sess[h].trace)))
                        => sess'[h].life = "Feeding"
                   /\ (call'.op = "feed" /\ ParseErrors(sess[h].trace) # <<>>)
                        => /\ sess'[h].life = "Feeding"
                           /\ Len(sess'[h].cuts) = Len(sess[h].cuts) + 1
                           /\ sess'[h].trace
                                = FeedRun(sess[h], Chunks(sess'[h])[Len(sess'[h].cuts)]).trace
                   /\ (call'.op = "finish" /\ ParseErrors(sess[h].trace) # <<>>)
                        => sess'[h].life = "Finished"]_vars

\* a session that reported an empty tag in its first chunk, read a chunk
\* of text after it and was then finished
C14_Witness ==
    \E h \in DOMAIN sess :
        /\ sess[h].life = "Finished"
        /\ Len(sess[h].cuts) = 2
        /\ Chunks(sess[h])[1] = <<"<", ">">>
        /\ Len(ParseErrors(sess[h].trace)) >= 2
        /\ \E i \in 1..Len(sess[h].trace) :
              /\ sess[h].trace[i].k = "parse_error"
              /\ sess[h].trace[i].str.ptr = ErrEmptyTag
              /\ \E j \in (i + 1)..Len(sess[h].trace) : sess[h].trace[j].k = "append"

\* the characters of the chunks that feed did not drop, in order
RECURSIVE ValidChars(_)
ValidChars(chunks) ==
    IF chunks = <<>> THEN <<>>
    ELSE (IF Utf8Valid(Head(chunks)) THEN Utf8Chars(Head(chunks)) ELSE <<>>)
         \o ValidChars(Tail(chunks))

\* the character data among chars: what stands outside "<" ... ">"
RECURSIVE TextOf(_, _)
TextOf(chars, intag) ==
    IF chars = <<>> THEN <<>>
    ELSE IF intag THEN TextOf(Tail(chars), Head(chars) # ">")
    ELSE IF Head(chars) = "<" THEN TextOf(Tail(chars), TRUE)
    ELSE <<Head(chars)>> \o TextOf(Tail(chars), FALSE)

\* the start tags among chars that are closed by their ">"
RECURSIVE StartTags(_, _, _)
StartTags(chars, intag, buf) ==
    IF chars = <<>> THEN 0
    ELSE IF ~intag THEN StartTags(Tail(chars), Head(chars) = "<", <<>>)
    ELSE IF Head(chars) # ">" THEN StartTags(Tail(chars), TRUE, Append(buf, Head(chars)))
    ELSE (IF buf # <<>> /\ Head(buf) # "/" THEN 1 ELSE 0) + StartTags(Tail(chars), FALSE, <<>>)

\* the text the host was handed so far, append after append
RECURSIVE AppendedText(_)
AppendedText(trace) ==
    IF trace = <<>> THEN <<>>
    ELSE (IF Head(trace).k = "append" /\ Head(trace).child.tag = 1
          THEN Head(trace).child.text.ptr ELSE <<>>)
         \o AppendedText(Tail(trace))

\* C18: feed() is synchronous.  When a feed() has returned, the host has
\* already been handed all character data and an element for every
\* completed start tag of the chunks read so far: nothing of them is left
\* for later; and the host is called only while a feed(), finish() or
\* one-shot call is running.
C18_FeedIsSynchronous ==
    /\ [](\A h \in DOMAIN sess :
            LET s == sess[h]
                chars == ValidChars(Chunks(s))
            IN  s.life \in {"Created", "Feeding"}
                  => /\ AppendedText(s.trace) = TextOf(chars, FALSE)
                     /\ Len(Creates(s.trace))
                          = (IF s.parser.root THEN 1 ELSE 0) + StartTags(chars, FALSE, <<>>))
    /\ [][/\ \A h \in DOMAIN sess :
               (h \in DOMAIN sess' /\ HostCalls(sess'[h].trace) # HostCalls(sess[h].trace))
                   => /\ call'.op \in {"feed", "finish"}
                      /\ ~call'.rejected
          /\ shot' # shot => call'.op \in {"document", "fragment"}]_vars

\* a session that is still being fed: two chunks read, text handed over,
\* and a tag begun that the next chunk has to complete
C18_Witness ==
    \E h \in DOMAIN sess :
        /\ sess[h].life = "Feeding"
        /\ Len(sess[h].cuts) = 2
        /\ sess[h].parser.tok = "tag"
        /\ AppendedText(sess[h].trace) # <<>>
        /\ Len(Creates(sess[h].trace)) >= 2

\* C19: on every way a session ends, finish() and destroy(), the arena
\* outlives the engine's parser state: the parser state is released first
\* and the arena after it.
C19_ArenaOutlivesParser ==
    \A h \in DOMAIN sess :
        (sess[h].life \in Terminal /\ sess[h].stale = 0)
            => LET t == sess[h].trace
                   p == Positions(t, {"drop_parser"})
                   a == Positions(t, {"drop_arena"})
               IN  /\ Cardinality(p) = 1
                   /\ Cardinality(a) = 1
                   /\ \A i \in p, j \in a : i < j

(***************************************************************************)
(* Claims about the adapter, whatever the engine calls.                    *)
(***************************************************************************)
\* the create_element call that returned the handle h
CreatedAs(h) ==
    LET i == CHOOSE j \in 1..Len(issued) :
                 issued[j].m = "create_element" /\ issued[j].ret = h
    IN  issued[i]

\* C12: with a host whose lookup returns for a handle the address it was
\* given when the element was created, elem_name(h) returns the name and
\* is_mathml_annotation_xml_integration_point(h) the flag that
\* create_element was called with, after any other adapter calls; an entry
\* is never changed once made.
C12_MetadataRoundTrip ==
    /\ [](\A i \in 1..Len(issued) :
            /\ issued[i].m = "elem_name"
                  => issued[i].ret = CreatedAs(issued[i].target).name
            /\ issued[i].m = "is_mathml_annotation_xml_integration_point"
                  => issued[i].ret
                       = CreatedAs(issued[i].target).flags.mathml_annotation_xml_integration_point)
    /\ [][\A h \in DOMAIN sess :
            h \in DOMAIN sess' =>
                \A d \in 1..Len(sess[h].arena.slots) :
                    /\ d \in 1..Len(sess'[h].arena.slots)
                    /\ sess'[h].arena.slots[d] = sess[h].arena.slots[d]]_vars

\* an integration point is created, another element after it, and the
\* engine then asks for the flag of the first
C12_Witness ==
    /\ Len(issued) = 3
    /\ issued[1].m = "create_element"
    /\ issued[1].flags.mathml_annotation_xml_integration_point
    /\ issued[2].m = "create_element"
    /\ issued[2].name # issued[1].name
    /\ issued[3].m = "is_mathml_annotation_xml_integration_point"
    /\ issued[3].target = issued[1].ret
    /\ issued[3].ret = TRUE

Fatal == {"append_before_sibling", "append_based_on_parent_node"}

\* C13: a call of append_before_sibling or append_based_on_parent_node,
\* with any arguments and in any state of the session, is fatal: it makes
\* no host callback, leaves the arena as it is, and nothing is parsed after
\* it.
C13_UnsupportedIsFatal ==
    /\ [][\A h \in DOMAIN sess :
            (h \in DOMAIN sess' /\ Len(issued') = Len(issued) + 1
                /\ issued'[Len(issued')].m \in Fatal)
                => /\ sess'[h].trace = sess[h].trace
                   /\ sess'[h].host = sess[h].host
                   /\ sess'[h].arena = sess[h].arena
                   /\ sess'[h].abort]_vars
    /\ [][Running]_vars
    /\ [](\A i \in 1..Len(issued) : issued[i].m \in Fatal => i = Len(issued))

\* the engine asks for an insertion before a sibling after the host has
\* seen callbacks for two nodes
C13_Witness ==
    /\ Len(issued) = 3
    /\ issued[3].m = "append_before_sibling"
    /\ sess[1].abort
    /\ Len(sess[1].host) = 2
    /\ Len(sess[1].trace) = 2

SameNodeCalls == SelectSeq(issued, LAMBDA e : e.m = "same_node")

\* C15: same_node is an equivalence on handles (reflexive, symmetric,
\* transitive) and answers true exactly when the two handles are the same
\* handle, whatever the nodes hold and whatever the session has done
\* between two calls.
C15_SameNodeIsIdentity ==
    LET c == SameNodeCalls
        handles == Refs(sess[1]) \cup {NullRef}
    IN  /\ \A i \in 1..Len(c) : c[i].ret = (c[i].x = c[i].y)
        /\ \A i \in 1..Len(c), j \in 1..Len(c) :
              /\ (c[i].x = c[j].x /\ c[i].y = c[j].y) => c[i].ret = c[j].ret
              /\ (c[i].x = c[j].y /\ c[i].y = c[j].x) => c[i].ret = c[j].ret
        /\ \A x \in handles : Sink_same_node(x, x)
        /\ \A x \in handles, y \in handles : Sink_same_node(x, y) = Sink_same_node(y, x)
        /\ \A x \in handles, y \in handles, z \in handles :
              (Sink_same_node(x, y) /\ Sink_same_node(y, z)) => Sink_same_node(x, z)

\* two elements made with the same name, attributes and flags, and the
\* engine asks whether they are the same node
C15_Witness ==
    /\ Len(issued) = 3
    /\ issued[1].m = "create_element"
    /\ issued[2].m = "create_element"
    /\ issued[2].name = issued[1].name
    /\ issued[2].attrs = issued[1].attrs
    /\ issued[3].m = "same_node"
    /\ issued[3].x = issued[1].ret
    /\ issued[3].y = issued[2].ret
    /\ issued[3].ret = FALSE

\* C16: append(parent, child) makes exactly one host append call, with the
\* same parent; a node child arrives with tag 0, the child's handle and an
\* empty text view, a text child with tag 1, a null node handle and a view
\* whose bytes are the engine's text as it was handed over.
C16_AppendKeepsTheVariant ==
    [][\A h \in DOMAIN sess :
          (h \in DOMAIN sess' /\ Len(issued') = Len(issued) + 1
              /\ issued'[Len(issued')].m = "append")
              => LET e == issued'[Len(issued')]
                     t == sess'[h].trace
                 IN  /\ Len(t) = Len(sess[h].trace) + 1
                     /\ SubSeq(t, 1, Len(sess[h].trace)) = sess[h].trace
                     /\ t[Len(t)].k = "append"
                     /\ t[Len(t)].ctx = sess[h].parser.sink.ctx
                     /\ t[Len(t)].parent = e.parent
                     /\ e.child.kind = "AppendNode"
                           => t[Len(t)].child = [tag |-> 0, node |-> e.child.node,
                                                 text |-> [ptr |-> NULL, len |-> 0]]
                     /\ e.child.kind = "AppendText"
                           => t[Len(t)].child = [tag |-> 1, node |-> NullRef,
                                                 text |-> [ptr |-> e.child.t,
                                                           len |-> ByteLen(e.child.t)]]]_vars

\* an element appended to the document, then text of three bytes appended
\* to the element
C16_Witness ==
    /\ Len(issued) = 3
    /\ issued[2].m = "append"
    /\ issued[2].child.kind = "AppendNode"
    /\ issued[3].m = "append"
    /\ issued[3].parent = issued[2].child.node
    /\ issued[3].child.kind = "AppendText"
    /\ sess[1].trace[3].child.tag = 1
    /\ sess[1].trace[3].child.text.len = 3

ForwardedKinds ==
    {"create_element", "create_comment", "create_pi", "append",
     "append_doctype_to_document", "pop", "add_attrs_if_missing", "remove_from_parent",
     "reparent_children", "get_template_contents", "parse_error"}

\* the host callback c is the engine's call e passed on: same kind, the
\* session's context, the same arguments, and the host's answer returned
Forwards(e, c) ==
    /\ c.k = e.m
    /\ c.ctx = CtxRef
    /\ e.m = "create_element"
          => /\ c.name = CQualNameCreate(e.name)
             /\ c.attributes.vec = e.attrs
             /\ c.ret = e.ret
    /\ e.m = "create_comment" => (c.str = StringSlice(e.txt) /\ c.ret = e.ret)
    /\ e.m = "create_pi"
          => /\ c.target = StringSlice(e.target)
             /\ c.data = StringSlice(e.data)
             /\ c.ret = e.ret
    /\ e.m = "append"
          => /\ c.parent = e.parent
             /\ c.child.tag = (IF e.child.kind = "AppendText" THEN 1 ELSE 0)
             /\ e.child.kind = "AppendText" => c.child.text = StringSlice(e.child.t)
             /\ e.child.kind = "AppendNode" => c.child.node = e.child.node
    /\ e.m = "append_doctype_to_document"
          => /\ c.name = StringSlice(e.name)
             /\ c.public_id = StringSlice(e.public_id)
             /\ c.system_id = StringSlice(e.system_id)
    /\ e.m = "pop" => c.node = e.node
    /\ e.m = "add_attrs_if_missing" => (c.target = e.target /\ c.attributes.vec = e.attrs)
    /\ e.m = "remove_from_parent" => c.target = e.target
    /\ e.m = "reparent_children" => (c.node = e.node /\ c.new_parent = e.new_parent)
    /\ e.m = "get_template_contents" => (c.target = e.target /\ c.ret = e.ret)
    /\ e.m = "parse_error" => c.str = StringSlice(e.msg)

\* C17: each call the engine makes of a forwarded kind causes exactly one
\* host callback of that kind with the same arguments, and the host sees
\* these callbacks in the order of the calls: none is dropped, made twice
\* or moved.
C17_ForwardedInOrder ==
    LET calls == SelectSeq(issued, LAMBDA e : e.m \in ForwardedKinds)
        cbs   == SelectSeq(sess[1].trace, LAMBDA c : c.k \in ForwardedKinds)
    IN  /\ Len(cbs) = Len(calls)
        /\ \A i \in 1..Len(calls) : Forwards(calls[i], cbs[i])

\* an element is created, given more attributes, and its children moved
\* to the document: three callbacks of three kinds
C17_Witness ==
    /\ Len(issued) = 3
    /\ issued[1].m = "create_element"
    /\ issued[2].m = "add_attrs_if_missing"
    /\ issued[3].m = "reparent_children"
    /\ issued[3].node # issued[3].new_parent
    /\ Len(sess[1].trace) = 3
    /\ sess[1].trace[3].k = "reparent_children"

WithAttributes == {"create_element", "add_attrs_if_missing"}

\* C20: the attribute sequence that create_element or add_attrs_if_missing
\* builds over a list L starts at position 0; the i-th successful next()
\* on it returns the name and the value of L[i] and leaves the position at
\* i, so that a host reading it to the end gets every attribute of L once,
\* in the order of L, and then the exhausted signal.
C20_SequenceFollowsTheList ==
    LET calls == SelectSeq(issued, LAMBDA e : e.m \in WithAttributes)
        cbs   == SelectSeq(sess[1].trace, LAMBDA c : c.k \in WithAttributes)
    IN  /\ Len(cbs) = Len(calls)
        /\ \A n \in 1..Len(calls) :
              LET L == calls[n].attrs
                  seen == calls[n].read
              IN  /\ cbs[n].k = calls[n].m
                  /\ cbs[n].attributes.pos = 0
                  /\ Len(seen) = Len(L) + 1
                  /\ \A i \in 1..Len(L) :
                        /\ seen[i].ret.tag = 1
                        /\ seen[i].ret.value.name = CQualNameCreate(L[i].name)
                        /\ seen[i].ret.value.value.ptr = L[i].value
                        /\ seen[i].ret.value.value.len = ByteLen(L[i].value)
                        /\ seen[i].pos = i
                  /\ seen[Len(L) + 1].ret.tag = 0
                  /\ seen[Len(L) + 1].pos = Len(L)

\* an element created with one attribute is given a list of two more, and
\* the host reads both sequences to the end
C20_Witness ==
    /\ Len(issued) >= 2
    /\ issued[1].m = "create_element"
    /\ Len(issued[1].attrs) = 1
    /\ issued[2].m = "add_attrs_if_missing"
    /\ Len(issued[2].attrs) = 2
    /\ Len(issued[1].read) = 2
    /\ Len(issued[2].read) = 3
    /\ issued[2].read[2].pos = 2

(***************************************************************************)
(* Claims about sessions held side by side.                                *)
(***************************************************************************)
\* C21: every session has an arena of its own.  With several sessions
\* held side by side and their calls interleaved in any order, a call
\* changes at most one session and leaves the arena entries, the engine
\* state and the lifecycle state of every other session as they were; a
\* new session starts with an empty arena; and as long as a session is not
\* terminal its arena lives and every address it handed out refers to the
\* entry made for it, whether the other sessions were finished or
\* destroyed.
C21_SessionIsolation ==
    /\ [][/\ \A h \in DOMAIN sess : h \in DOMAIN sess'
          /\ \A h \in DOMAIN sess, g \in DOMAIN sess :
                (h # g /\ sess'[h] # sess[h])
                    => /\ sess'[g].arena = sess[g].arena
                       /\ sess'[g].parser = sess[g].parser
                       /\ sess'[g].life = sess[g].life
                       /\ sess'[g].trace = sess[g].trace
          /\ Len(sess') > Len(sess)
                => /\ \A h \in DOMAIN sess : sess'[h] = sess[h]
                   /\ sess'[Len(sess')].arena = ArenaNew
          /\ (call'.op \in {"finish", "destroy"} /\ ~call'.rejected)
                => Cardinality({h \in DOMAIN sess : sess'[h].life # sess[h].life}) = 1]_vars
    /\ [](\A h \in DOMAIN sess :
            LET s == sess[h]
            IN  /\ \A i \in 1..Len(s.trace) :
                      s.trace[i].k \in ForwardedKinds => s.trace[i].ctx = CtxRef + h - 1
                /\ s.life \notin Terminal
                      => /\ s.arena.alive
                         /\ s.parser.alive
                         /\ \A i \in 1..Len(s.trace) :
                               s.trace[i].k = "create_element"
                                  => /\ s.trace[i].data \in 1..Len(s.arena.slots)
                                     /\ HostGetData(s.host, s.trace[i].ret) = s.trace[i].data
                                     /\ CQualNameCreate(s.arena.slots[s.trace[i].data].qname)
                                          = s.trace[i].name)

\* two sessions that both made arena entries; the first was then finished
\* and the second is still being fed
C21_Witness ==
    /\ Len(sess) = 2
    /\ sess[1].life = "Finished"
    /\ Len(sess[1].arena.slots) >= 2
    /\ sess[2].life = "Feeding"
    /\ sess[2].arena.alive
    /\ Len(sess[2].arena.slots) >= 2
    /\ sess[2].parser.tok = "data"

\* C22: feed() with a null chunk pointer or a chunk of length zero, and
\* feed(), finish() or destroy() with a null session handle, do nothing:
\* no host callback is made and every session keeps its lifecycle state,
\* its engine state and its arena; a Created session that is fed an empty
\* chunk is still Created.
C22_NullAndEmptyAreNoOps ==
    [][(call'.op \in {"feed", "finish", "destroy"} /\ call'.rejected)
          => /\ DOMAIN sess' = DOMAIN sess
             /\ \A h \in DOMAIN sess :
                   /\ sess'[h].trace = sess[h].trace
                   /\ sess'[h].life = sess[h].life
                   /\ sess'[h].parser = sess[h].parser
                   /\ sess'[h].arena = sess[h].arena
                   /\ sess'[h].host = sess[h].host
                   /\ sess'[h].cursor = sess[h].cursor
             /\ shot' = shot]_vars

\* a null or empty feed has just returned while one session is Created and
\* another is in the middle of a tag
C22_Witness ==
    /\ call = [op |-> "feed", rejected |-> TRUE]
    /\ Len(sess) = 2
    /\ sess[1].life = "Created"
    /\ sess[1].trace = <<>>
    /\ sess[2].life = "Feeding"
    /\ sess[2].parser.tok = "tag"
    /\ sess[2].arena.alive

(***************************************************************************)
(* Claims about the attribute iterator.                                    *)
(***************************************************************************)
NextRets == SelectSeq(iterLog, LAMBDA e : e.op = "next")
CountRets == SelectSeq(iterLog, LAMBDA e : e.op = "count")

\* C1: if count() returns k, exactly the first k next() calls return an
\* attribute (tag 1) and every later next() returns the exhausted signal
\* (tag 0); the position never exceeds k.
C1_Exhaustion ==
    \A c \in 1..Len(CountRets) :
        LET k == CountRets[c].ret
        IN  /\ iter.pos <= k
            /\ \A i \in 1..Len(NextRets) :
                   NextRets[i].ret.tag = (IF i <= k THEN 1 ELSE 0)

\* the iterator was counted, drained, and asked again after exhaustion
C1_Witness ==
    /\ Len(CountRets) >= 1
    /\ Len(iter.vec) >= 1
    /\ Len(NextRets) >= Len(iter.vec) + 2

\* C2: count() leaves the position and the attribute list unchanged, and
\* returns the same total whether called before any next(), between next()
\* calls or after exhaustion.
C2_CountIsPure ==
    /\ [][(Len(iterLog') = Len(iterLog) + 1 /\ iterLog'[Len(iterLog')].op = "count")
            => iter' = iter]_vars
    /\ [](\A c \in 1..Len(CountRets) : CountRets[c].ret = Len(iter.vec))
    /\ [][iter'.vec = iter.vec]_vars

\* count() was called before the first next(), between two, and after exhaustion
C2_Witness ==
    /\ Len(iter.vec) = 2
    /\ Len(iterLog) >= 4
    /\ iterLog[1].op = "count"
    /\ iterLog[2].op = "next"
    /\ iterLog[3].op = "count"
    /\ iterLog[4].op = "next"

====
